---------------------------- MODULE Spec2Model ----------------------------
(***************************************************************************)
(* A model of the weather widget of src/src/App.tsx: the React component   *)
(* App, its five pieces of state, its event handlers and the asynchronous  *)
(* function getWeather, whose two awaited network round trips are the      *)
(* points at which other handlers and other getWeather calls interleave.   *)
(*                                                                         *)
(* Conventions.                                                            *)
(*   - A value that may be null/undefined is a sequence of length at most  *)
(*     one: None is <<>>, Some(x) is <<x>>.                                *)
(*   - The city text is a sequence of one-character strings.               *)
(*   - Numbers with a fractional part (temperatures) are fixed-point       *)
(*     tenths where they are stored, and fractions [num, den] where they   *)
(*     are computed with; every value the arithmetic of convertTemp and    *)
(*     Math.round meets is far from a rounding boundary of the doubles     *)
(*     the program uses, except the exact halves, which doubles hold       *)
(*     exactly.                                                            *)
(*   - `await fetch(..)` followed by `await response.json()` is one step   *)
(*     of the model: the lookup writes no state between the two.           *)
(***************************************************************************)
EXTENDS Integers, Sequences, FiniteSets, TLC

VARIABLES
    city,       \* useState<string>("")              App.tsx:15
    weather,    \* useState<WeatherData | null>      App.tsx:16
    error,      \* useState<string>("")              App.tsx:17
    loading,    \* useState<boolean>(false)          App.tsx:18
    isCelsius,  \* useState<boolean>(true)           App.tsx:19
    lookups,    \* the calls of getWeather that passed line 56, in starting
                \* order: each one's position, local variables and requests
    view        \* what the last render displayed    App.tsx:113-257

\* The state of the component and of its pending calls, and all variables.
state == <<city, weather, error, loading, isCelsius, lookups>>
vars == <<city, weather, error, loading, isCelsius, lookups, view>>

-----------------------------------------------------------------------------
(* Bounds of the model *)

\* How many lookups (calls of getWeather with non-blank text) a run starts.
MaxLookups == 2
\* The condition codes of the rendering specification are 0..MaxCode.
MaxCode == 100
\* The temperatures of the rendering specification, in tenths of a degree,
\* are -MaxTenths..MaxTenths.
MaxTenths == 500

-----------------------------------------------------------------------------
(* Optional values *)

None == <<>>
Some(x) == <<x>>

-----------------------------------------------------------------------------
(* The three messages *)

EmptyInput == "Please enter a city name"
CityNotFound == "City not found!"
FetchFailure == "Error fetching weather data. Please try again."

-----------------------------------------------------------------------------
(* String.prototype.trim and encodeURIComponent on the city text *)

IsWhitespace(c) == c = " "

RECURSIVE TrimStart(_)
TrimStart(s) ==
    IF s = <<>> THEN s
    ELSE IF IsWhitespace(Head(s)) THEN TrimStart(Tail(s))
    ELSE s

RECURSIVE TrimEnd(_)
TrimEnd(s) ==
    IF s = <<>> THEN s
    ELSE IF IsWhitespace(s[Len(s)]) THEN TrimEnd(SubSeq(s, 1, Len(s) - 1))
    ELSE s

Trim(s) == TrimEnd(TrimStart(s))

\* IsBlank with the fault of not trimming: !city.
IsBlankUntrimmed(s) == s = <<>>

\* !city.trim(): the empty string is the only falsy string.
IsBlank(s) == Trim(s) = <<>>

encodeURIComponent(s) ==
    [i \in 1..Len(s) |-> IF s[i] = " " THEN "%20" ELSE s[i]]


-----------------------------------------------------------------------------
(* getWeatherCode: the condition-code table and its fallback *)

\* getWeatherCode with the fault of a table that lacks the entry 48.
getWeatherCodeWithout48(code) ==
    CASE code = 0 -> "Clear sky"
      [] code = 1 -> "Mainly clear"
      [] code = 2 -> "Partly cloudy"
      [] code = 3 -> "Overcast"
      [] code = 45 -> "Fog"
      [] code = 51 -> "Light drizzle"
      [] code = 53 -> "Moderate drizzle"
      [] code = 55 -> "Dense drizzle"
      [] code = 61 -> "Slight rain"
      [] code = 63 -> "Moderate rain"
      [] code = 65 -> "Heavy rain"
      [] code = 71 -> "Slight snow fall"
      [] code = 73 -> "Moderate snow fall"
      [] code = 75 -> "Heavy snow fall"
      [] code = 80 -> "Slight rain showers"
      [] code = 81 -> "Moderate rain showers"
      [] code = 82 -> "Violent rain showers"
      [] code = 95 -> "Thunderstorm"
      [] code = 96 -> "Thunderstorm with hail"
      [] code = 99 -> "Thunderstorm with heavy hail"
      [] OTHER -> "Unknown"

\* weatherCodes with two entries more, the codes 56 and 57.
weatherCodesWithFreezingDrizzle ==
    << <<0, "Clear sky">>,
       <<1, "Mainly clear">>,
       <<2, "Partly cloudy">>,
       <<3, "Overcast">>,
       <<45, "Fog">>,
       <<48, "Depositing rime fog">>,
       <<51, "Light drizzle">>,
       <<53, "Moderate drizzle">>,
       <<55, "Dense drizzle">>,
       <<56, "Light freezing drizzle">>,
       <<57, "Dense freezing drizzle">>,
       <<61, "Slight rain">>,
       <<63, "Moderate rain">>,
       <<65, "Heavy rain">>,
       <<71, "Slight snow fall">>,
       <<73, "Moderate snow fall">>,
       <<75, "Heavy snow fall">>,
       <<80, "Slight rain showers">>,
       <<81, "Moderate rain showers">>,
       <<82, "Violent rain showers">>,
       <<95, "Thunderstorm">>,
       <<96, "Thunderstorm with hail">>,
       <<99, "Thunderstorm with heavy hail">> >>

\* const weatherCodes: Record<number, string> = {...}: the entries, in the
\* order of the source.
weatherCodes ==
    << <<0, "Clear sky">>,
       <<1, "Mainly clear">>,
       <<2, "Partly cloudy">>,
       <<3, "Overcast">>,
       <<45, "Fog">>,
       <<48, "Depositing rime fog">>,
       <<51, "Light drizzle">>,
       <<53, "Moderate drizzle">>,
       <<55, "Dense drizzle">>,
       <<61, "Slight rain">>,
       <<63, "Moderate rain">>,
       <<65, "Heavy rain">>,
       <<71, "Slight snow fall">>,
       <<73, "Moderate snow fall">>,
       <<75, "Heavy snow fall">>,
       <<80, "Slight rain showers">>,
       <<81, "Moderate rain showers">>,
       <<82, "Violent rain showers">>,
       <<95, "Thunderstorm">>,
       <<96, "Thunderstorm with hail">>,
       <<99, "Thunderstorm with heavy hail">> >>

\* weatherCodes[code]: the value of the entry whose key is code, or None
\* (undefined) when the object has no such key.
Property(table, key) ==
    IF \E i \in 1..Len(table) : table[i][1] = key
    THEN Some(table[CHOOSE i \in 1..Len(table) : table[i][1] = key][2])
    ELSE None

\* weatherCodes[code] || "Unknown": undefined and the empty string are falsy.
getWeatherCode(code) ==
    LET label == Property(weatherCodes, code)
    IN  IF label = None \/ label = Some("") THEN "Unknown" ELSE label[1]

-----------------------------------------------------------------------------
(* convertTemp and Math.round *)

\* A number as a fraction; a stored temperature is a count of tenths.
Tenths(t) == [num |-> t, den |-> 10]
Times(q, k) == [num |-> q.num * k, den |-> q.den]
Over(q, k) == [num |-> q.num, den |-> q.den * k]
Plus(q, k) == [num |-> q.num + k * q.den, den |-> q.den]

\* isCelsius ? tempC : (tempC * 9/5) + 32, isCelsius being the state the
\* rendering closure holds.
convertTemp(tempC, isC) ==
    IF isC THEN tempC ELSE Plus(Over(Times(tempC, 9), 5), 32)

\* MathRound with the fault of rounding down, as Math.floor does.
MathFloor(q) == q.num \div q.den

\* Math.round: the integer nearest to x, a half rounding towards +infinity,
\* that is floor(x + 1/2).
MathRound(q) == (2 * q.num + q.den) \div (2 * q.den)

-----------------------------------------------------------------------------
(* The render: what App returns for a given state (lines 113-257) *)

Render(w, e, l, c) ==
    [ input |-> [enabled |-> TRUE],
      button |-> [disabled |-> l,
                  text |-> IF l THEN "Loading..." ELSE "Get Weather"],
      \* {error && <p>..}: the empty string renders nothing
      errorLine |-> IF e = "" THEN None ELSE Some(e),
      \* {weather && <div>..}
      panel |->
        IF w = None THEN None
        ELSE Some([ heading |-> <<w[1].city, w[1].country>>,
                    condition |-> getWeatherCode(w[1].weatherCode),
                    temperature |->
                        MathRound(convertTemp(Tenths(w[1].temperature), c)),
                    precipitation |-> w[1].precipitation,
                    humidity |-> w[1].humidity,
                    windSpeed |-> w[1].windSpeed,
                    selected |-> IF c THEN "C" ELSE "F" ]) ]

\* React renders again after the state updates of a handler or continuation.
Rerender == view' = Render(weather', error', loading', isCelsius')

-----------------------------------------------------------------------------
(* Network: requests and settled responses *)

SearchRequest(text) ==
    [api |-> "search", args |-> <<encodeURIComponent(text)>>]
ForecastRequest(latitude, longitude) ==
    [api |-> "forecast", args |-> <<latitude, longitude>>]

\* fetch() rejected: a network error.
Rejected == [settled |-> "rejected", body |-> None]
\* fetch() resolved and response.json() rejected: the body is not JSON.
NotJson == [settled |-> "notJson", body |-> None]
\* Both resolved; the JSON text `null` is Json(None).
Json(data) == [settled |-> "json", body |-> data]

\* arr[h] of a JavaScript array (0-based): undefined past the end.
Index(arr, h) == IF h + 1 <= Len(arr) THEN arr[h + 1] ELSE None

\* x || 0 for a number or null/undefined x.
OrZero(m) == IF m = None \/ m = Some(0) THEN 0 ELSE m[1]

-----------------------------------------------------------------------------
(* getWeather *)

\* A lookup is the part of a getWeather call after line 56. pc is the await
\* it is suspended at ("geo": lines 62-65, "forecast": lines 76-79) or
\* "done"; place holds latitude, longitude, name and country of line 74;
\* requests are the fetches it has issued; outcome is how it ended.
NewLookup(text) ==
    [ pc |-> "geo",
      requests |-> <<SearchRequest(text)>>,
      place |-> None,
      outcome |-> "" ]

InFlight(i) == i \in 1..Len(lookups) /\ lookups[i].pc # "done"

Finish(i, how) ==
    lookups' = [lookups EXCEPT ![i].pc = "done", ![i].outcome = how]

\* getWeather with the fault of clearing the snapshot when a lookup starts:
\* setWeather(null) beside line 59.
getWeatherClearingSnapshot ==
    IF IsBlank(city)
    THEN /\ error' = EmptyInput
         /\ UNCHANGED <<city, weather, loading, isCelsius, lookups>>
    ELSE /\ Len(lookups) < MaxLookups
         /\ loading' = TRUE
         /\ error' = ""
         /\ weather' = None
         /\ lookups' = Append(lookups, NewLookup(city))
         /\ UNCHANGED <<city, isCelsius>>

\* Lines 52-60, down to the first await.
getWeather ==
    IF IsBlank(city)
    THEN /\ error' = EmptyInput
         /\ UNCHANGED <<city, weather, loading, isCelsius, lookups>>
    ELSE /\ Len(lookups) < MaxLookups
         /\ loading' = TRUE
         /\ error' = ""
         /\ lookups' = Append(lookups, NewLookup(city))
         /\ UNCHANGED <<city, weather, isCelsius>>

\* CityNotFoundBranch with the fault of returning without
\* setLoading(false), as it would without line 70 and the finally block.
CityNotFoundBranchStaysLoading(i) ==
    /\ error' = CityNotFound
    /\ weather' = None
    /\ Finish(i, "notFound")
    /\ UNCHANGED <<city, isCelsius, loading>>

\* Lines 68-71, then the finally block of lines 102-104.
CityNotFoundBranch(i) ==
    /\ error' = CityNotFound
    /\ weather' = None
    /\ loading' = FALSE
    /\ Finish(i, "notFound")
    /\ UNCHANGED <<city, isCelsius>>

\* CatchBranch with the fault of trying again: the lookup goes back to its
\* search request instead of ending.
CatchBranchRetrying(i) ==
    /\ lookups' = [lookups EXCEPT ![i].pc = "geo",
                                  ![i].place = None,
                                  ![i].requests = <<Head(@)>>]
    /\ UNCHANGED <<city, weather, error, loading, isCelsius>>

\* CatchBranch with the fault of leaving the snapshot: no setWeather(null).
CatchBranchKeepsSnapshot(i) ==
    /\ error' = FetchFailure
    /\ loading' = FALSE
    /\ Finish(i, "fetchFailure")
    /\ UNCHANGED <<city, isCelsius, weather>>

\* Lines 98-101, then the finally block of lines 102-104.
CatchBranch(i) ==
    /\ error' = FetchFailure
    /\ weather' = None
    /\ loading' = FALSE
    /\ Finish(i, "fetchFailure")
    /\ UNCHANGED <<city, isCelsius>>

\* HasNoResults with the fault of testing only for an absent list.
HasNoResultsList(geoData) == geoData.results = None

\* !geoData.results || geoData.results.length === 0
HasNoResults(geoData) ==
    geoData.results = None \/ Len(geoData.results[1]) = 0

\* ForecastBranch with the fault of taking the last candidate:
\* geoData.results[geoData.results.length - 1].
ForecastBranchOfLast(i, geoData) ==
    LET last == Index(geoData.results[1], Len(geoData.results[1]) - 1)
    IN  IF last = None
        THEN CatchBranch(i)
        ELSE /\ lookups' =
                  [lookups EXCEPT
                     ![i].pc = "forecast",
                     ![i].place = last,
                     ![i].requests =
                         Append(@, ForecastRequest(last[1].latitude,
                                                   last[1].longitude))]
             /\ UNCHANGED <<city, weather, error, loading, isCelsius>>

\* Lines 74-77: destructure the first candidate and issue the forecast
\* request. Destructuring undefined or null throws.
ForecastBranch(i, geoData) ==
    LET first == Index(geoData.results[1], 0)
    IN  IF first = None
        THEN CatchBranch(i)
        ELSE /\ lookups' =
                  [lookups EXCEPT
                     ![i].pc = "forecast",
                     ![i].place = first,
                     ![i].requests =
                         Append(@, ForecastRequest(first[1].latitude,
                                                   first[1].longitude))]
             /\ UNCHANGED <<city, weather, error, loading, isCelsius>>

\* Lines 62-77: the search request of lookup i settles with r.
AfterSearch(i, r) ==
    IF r.settled # "json" \/ r.body = None
    THEN CatchBranch(i)
    ELSE IF HasNoResults(r.body[1])
         THEN CityNotFoundBranch(i)
         ELSE ForecastBranch(i, r.body[1])

\* Lines 81-85 throw when they read a property of undefined: hourly, either
\* hourly array, or current_weather.
ForecastThrows(weatherData) ==
    \/ weatherData.hourly = None
    \/ weatherData.hourly[1].relative_humidity_2m = None
    \/ weatherData.hourly[1].precipitation_probability = None
    \/ weatherData.current_weather = None

\* Snapshot with the fault of reading the hour after the current one:
\* [currentHour + 1].
SnapshotOfNextHour(place, weatherData, currentHour) ==
    LET currentWeather == weatherData.current_weather[1]
        hourly == weatherData.hourly[1]
        humidity ==
            OrZero(Index(hourly.relative_humidity_2m[1], currentHour + 1))
        precipitation ==
            OrZero(Index(hourly.precipitation_probability[1],
                         currentHour + 1))
    IN  [ city |-> place.name,
          country |-> place.country,
          temperature |-> currentWeather.temperature,
          weatherCode |-> currentWeather.weathercode,
          windSpeed |-> currentWeather.windspeed,
          humidity |-> humidity,
          precipitation |-> precipitation,
          isDay |-> currentWeather.is_day ]

\* The object of lines 87-96.
Snapshot(place, weatherData, currentHour) ==
    LET currentWeather == weatherData.current_weather[1]
        hourly == weatherData.hourly[1]
        humidity == OrZero(Index(hourly.relative_humidity_2m[1], currentHour))
        precipitation ==
            OrZero(Index(hourly.precipitation_probability[1], currentHour))
    IN  [ city |-> place.name,
          country |-> place.country,
          temperature |-> currentWeather.temperature,
          weatherCode |-> currentWeather.weathercode,
          windSpeed |-> currentWeather.windspeed,
          humidity |-> humidity,
          precipitation |-> precipitation,
          isDay |-> currentWeather.is_day ]

\* SuccessBranch as it would be with a guard against stale responses: the
\* snapshot of a lookup that is no longer the latest one is dropped.
SuccessBranchIfLatest(i, snapshot) ==
    /\ weather' = IF i = Len(lookups) THEN Some(snapshot) ELSE weather
    /\ loading' = FALSE
    /\ Finish(i, "success")
    /\ UNCHANGED <<city, error, isCelsius>>

\* Line 87, then the finally block of lines 102-104.
SuccessBranch(i, snapshot) ==
    /\ weather' = Some(snapshot)
    /\ loading' = FALSE
    /\ Finish(i, "success")
    /\ UNCHANGED <<city, error, isCelsius>>

\* new Date().getHours() is one of 0..23; the hours tried are the first two,
\* which the short hourly arrays below still cover or hold null at, and the
\* last, which lies past their end.
Hours == {0, 1, 23}

\* The forecast response r makes lines 76-95 throw: fetch or json() rejects,
\* the body is `null`, or a property read through is missing.
ForecastUnreadable(r) ==
    \/ r.settled # "json"
    \/ r.body = None
    \/ ForecastThrows(r.body[1])

\* Lines 79-104 when the clock of line 82 reads currentHour.
AfterForecastAt(i, r, currentHour) ==
    IF ForecastUnreadable(r)
    THEN CatchBranch(i)
    ELSE SuccessBranch(i, Snapshot(lookups[i].place[1], r.body[1],
                                   currentHour))

\* Lines 79-104: the forecast request of lookup i settles with r; line 82
\* reads the local clock, which matters only when nothing throws.
AfterForecast(i, r) ==
    IF ForecastUnreadable(r)
    THEN CatchBranch(i)
    ELSE \E currentHour \in Hours : AfterForecastAt(i, r, currentHour)

-----------------------------------------------------------------------------
(* The other handlers *)

\* handleKeyPress with the fault of ignoring Enter while loading, as the
\* button does.
handleKeyPressUnlessLoading(key) ==
    IF key = "Enter" /\ ~loading THEN getWeather ELSE UNCHANGED state

\* Lines 107-111.
handleKeyPress(key) ==
    IF key = "Enter" THEN getWeather ELSE UNCHANGED state

\* onChange={(e) => setCity(e.target.value)}
setCity(text) ==
    /\ city' = text
    /\ UNCHANGED <<weather, error, loading, isCelsius, lookups>>

\* setIsCelsius with the fault of storing the converted temperature.
setIsCelsiusConverting(value) ==
    /\ isCelsius' = value
    /\ weather' =
         IF weather = None \/ value = isCelsius THEN weather
         ELSE Some([weather[1] EXCEPT
                      !.temperature =
                          10 * MathRound(convertTemp(Tenths(@), value))])
    /\ UNCHANGED <<city, error, loading, lookups>>

\* onClick={() => setIsCelsius(true)} and onClick={() => setIsCelsius(false)}
setIsCelsius(value) ==
    /\ isCelsius' = value
    /\ UNCHANGED <<city, weather, error, loading, lookups>>

-----------------------------------------------------------------------------
(* The inputs the environment chooses from *)

\* Texts of the input field: empty, whitespace only, and a non-blank one
\* with whitespace around it.
CityTexts == { <<>>, <<" ">>, <<" ", "a", " ">> }

Keys == {"Enter", "a"}

Paris == [latitude |-> 48, longitude |-> 2, name |-> "Paris",
          country |-> "France"]
Pune == [latitude |-> 18, longitude |-> 73, name |-> "Pune",
         country |-> "India"]

\* Bodies of the geocoding service: `null`, no results property, an empty
\* list, lists of candidates, and a list whose first element is null.
SearchBodies ==
    { None,
      Some([results |-> None]),
      Some([results |-> Some(<<>>)]),
      Some([results |-> Some(<<Some(Paris)>>)]),
      Some([results |-> Some(<<Some(Pune), Some(Paris)>>)]),
      Some([results |-> Some(<<None, Some(Paris)>>)]) }

SearchResponses == {Rejected, NotJson} \cup {Json(b) : b \in SearchBodies}

\* current_weather objects; temperatures in tenths of a degree Celsius.
Overcast == [temperature |-> 215, weathercode |-> 3, windspeed |-> 12,
             is_day |-> 1]
Unlisted == [temperature |-> -25, weathercode |-> 4, windspeed |-> 7,
             is_day |-> 0]

\* hourly objects: arrays that stop before most hours, null and zero entries.
ShortHourly ==
    [relative_humidity_2m |-> Some(<<Some(55), None>>),
     precipitation_probability |-> Some(<<Some(20)>>)]
SparseHourly ==
    [relative_humidity_2m |-> Some(<<>>),
     precipitation_probability |-> Some(<<Some(0), Some(20)>>)]

\* Bodies of the forecast service: `null`, bodies that lack a property the
\* code reads through, and complete ones.
ForecastBodies ==
    { None,
      Some([current_weather |-> None, hourly |-> Some(ShortHourly)]),
      Some([current_weather |-> Some(Overcast), hourly |-> None]),
      Some([current_weather |-> Some(Overcast),
            hourly |-> Some([relative_humidity_2m |-> None,
                             precipitation_probability |-> Some(<<>>)])]),
      Some([current_weather |-> Some(Overcast),
            hourly |-> Some([relative_humidity_2m |-> Some(<<>>),
                             precipitation_probability |-> None])]),
      Some([current_weather |-> Some(Overcast), hourly |-> Some(ShortHourly)]),
      Some([current_weather |-> Some(Unlisted),
            hourly |-> Some(SparseHourly)]) }

ForecastResponses ==
    {Rejected, NotJson} \cup {Json(b) : b \in ForecastBodies}

-----------------------------------------------------------------------------
(* Events: a handler or a continuation, then the render *)

\* The user edits the input field (line 144).
Change(text) == setCity(text) /\ Rerender

\* The user presses a key in the input field (line 145).
KeyPress(key) == handleKeyPress(key) /\ Rerender

\* The user clicks the button, which the last render did not disable
\* (lines 155-157).
ClickGetWeather ==
    /\ ~view.button.disabled
    /\ getWeather
    /\ Rerender

\* The user clicks a unit button, which only the weather panel holds
\* (lines 178, 204-231).
ClickUnit(value) ==
    /\ view.panel # None
    /\ setIsCelsius(value)
    /\ Rerender

\* The search request of lookup i settles.
SearchSettles(i, r) ==
    /\ i \in 1..Len(lookups)
    /\ lookups[i].pc = "geo"
    /\ AfterSearch(i, r)
    /\ Rerender

\* The forecast request of lookup i settles when the clock reads currentHour.
ForecastSettlesAt(i, r, currentHour) ==
    /\ i \in 1..Len(lookups)
    /\ lookups[i].pc = "forecast"
    /\ AfterForecastAt(i, r, currentHour)
    /\ Rerender

\* The forecast request of lookup i settles.
ForecastSettles(i, r) ==
    /\ i \in 1..Len(lookups)
    /\ lookups[i].pc = "forecast"
    /\ AfterForecast(i, r)
    /\ Rerender

-----------------------------------------------------------------------------
(* The component from its mount on *)

Init ==
    /\ city = <<>>
    /\ weather = None
    /\ error = ""
    /\ loading = FALSE
    /\ isCelsius = TRUE
    /\ lookups = <<>>
    /\ view = Render(None, "", FALSE, TRUE)

Next ==
    \/ \E text \in CityTexts : Change(text)
    \/ \E key \in Keys : KeyPress(key)
    \/ ClickGetWeather
    \/ \E value \in BOOLEAN : ClickUnit(value)
    \/ \E i \in 1..MaxLookups, r \in SearchResponses : SearchSettles(i, r)
    \/ \E i \in 1..MaxLookups, r \in ForecastResponses : ForecastSettles(i, r)

Spec == Init /\ [][Next]_vars

-----------------------------------------------------------------------------
(* The rendering of a stored snapshot, over ranges of codes and temperatures *)

RenderedCodes == (0 - 3)..MaxCode
RenderedTenths == (0 - MaxTenths)..MaxTenths

\* The states a first lookup that succeeds leaves behind, for every condition
\* code and temperature of the ranges: the text typed, both requests issued,
\* the snapshot of lines 87-96 stored and rendered.
InitRender ==
    \E t \in RenderedTenths, code \in RenderedCodes :
        LET text == <<" ", "a", " ">>
            weatherData ==
                [ current_weather |->
                      Some([temperature |-> t, weathercode |-> code,
                            windspeed |-> 12, is_day |-> 1]),
                  hourly |-> Some(ShortHourly) ]
        IN  /\ city = text
            /\ weather = Some(Snapshot(Paris, weatherData, 0))
            /\ error = ""
            /\ loading = FALSE
            /\ isCelsius = TRUE
            /\ lookups =
                 << [ pc |-> "done",
                      requests |->
                          <<SearchRequest(text),
                            ForecastRequest(Paris.latitude, Paris.longitude)>>,
                      place |-> Some(Paris),
                      outcome |-> "success" ] >>
            /\ view = Render(weather, error, loading, isCelsius)

NextRender == \E value \in BOOLEAN : ClickUnit(value)

SpecRender == InitRender /\ [][NextRender]_vars

-----------------------------------------------------------------------------
(* Vocabulary of the properties, stated on the inputs and not through the   *)
(* tests of the model                                                       *)

\* The text is empty or holds whitespace only.
BlankText(text) == \A k \in 1..Len(text) : text[k] = " "

\* A submit: a click on the button or the Enter key.
Submit == ClickGetWeather \/ KeyPress("Enter")

\* The geocoding response is JSON whose result list is absent or empty.
EmptyResultList(r) ==
    /\ r.settled = "json"
    /\ r.body # None
    /\ (r.body[1].results = None \/ r.body[1].results = Some(<<>>))

\* The geocoding step fails: a network error, a body that is not JSON, or
\* JSON the code cannot read through (`null`, a null first candidate).
SearchFails(r) ==
    \/ r.settled \in {"rejected", "notJson"}
    \/ r.body = None
    \/ /\ r.body[1].results # None
       /\ r.body[1].results[1] # <<>>
       /\ Head(r.body[1].results[1]) = None

\* The forecast step fails: a network error, a body that is not JSON, or
\* JSON that lacks current_weather, hourly or one of the two hourly arrays.
ForecastFails(r) ==
    \/ r.settled \in {"rejected", "notJson"}
    \/ r.body = None
    \/ r.body[1].current_weather = None
    \/ r.body[1].hourly = None
    \/ r.body[1].hourly[1].relative_humidity_2m = None
    \/ r.body[1].hourly[1].precipitation_probability = None

Ids == 1..MaxLookups

\* Lookup i takes a step: a response of its settles.
Moves(i) == i \in 1..Len(lookups) /\ lookups'[i] # lookups[i]

-----------------------------------------------------------------------------
(* C1 *)

\* C1: a submit (button or Enter) with empty or whitespace-only text, in any
\* state, issues no request and starts no lookup, leaves the loading flag as
\* it is, and sets the error message to "Please enter a city name".
C1_BlankSubmit ==
    [][ (BlankText(city) /\ Submit) =>
            /\ error' = "Please enter a city name"
            /\ lookups' = lookups
            /\ loading' = loading ]_vars

\* A whitespace-only text was submitted while a lookup is in flight: the
\* message is set, the lookup is the only one, and it has issued one request.
C1_Witness ==
    /\ city = <<" ">>
    /\ error = "Please enter a city name"
    /\ loading
    /\ Len(lookups) = 1
    /\ lookups[1].pc = "geo"
    /\ Len(lookups[1].requests) = 1

-----------------------------------------------------------------------------
(* C2 *)

\* Lookup i ends in this step otherwise than in success.
LookupFails(i) ==
    /\ i \in 1..Len(lookups)
    /\ lookups[i].pc # "done"
    /\ lookups'[i].pc = "done"
    /\ lookups'[i].outcome # "success"

\* C2: after a submit that fails, whether for blank input, an empty geocode
\* result or a fetch failure, the stored snapshot is absent.
C2_FailureClearsSnapshot ==
    [][ ((BlankText(city) /\ Submit) \/ \E i \in Ids : LookupFails(i)) =>
            weather' = None ]_vars

-----------------------------------------------------------------------------
(* C3 *)

\* C3: when the geocoding response of a lookup has an absent or empty result
\* list, the lookup ends without a forecast request, the error message is
\* "City not found!", the snapshot is absent and the loading flag is false.
C3_CityNotFound ==
    [][ \A i \in Ids : Moves(i) => \A r \in SearchResponses :
          (EmptyResultList(r) /\ SearchSettles(i, r)) =>
            /\ error' = "City not found!"
            /\ weather' = None
            /\ loading' = FALSE
            /\ lookups'[i].pc = "done"
            /\ lookups'[i].requests = lookups[i].requests
            /\ \A q \in 1..Len(lookups'[i].requests) :
                  lookups'[i].requests[q].api # "forecast" ]_vars

\* A lookup ended on an empty result list over a stored snapshot: the
\* snapshot is gone, the message shown, one request issued.
C3_Witness ==
    \E i \in 1..Len(lookups) :
        /\ lookups[i].outcome = "notFound"
        /\ Len(lookups[i].requests) = 1
        /\ \E j \in 1..Len(lookups) : lookups[j].outcome = "success"
        /\ error = "City not found!"
        /\ weather = None
        /\ ~loading

-----------------------------------------------------------------------------
(* C4 *)

\* C4: when the geocoding step or the forecast step of a lookup fails, the
\* error message is the one generic message, the snapshot is absent and the
\* loading flag is false.
C4_FetchFailure ==
    [][ \A i \in Ids : Moves(i) =>
          /\ \A r \in SearchResponses :
                (SearchFails(r) /\ SearchSettles(i, r)) =>
                    /\ error' = "Error fetching weather data. Please try again."
                    /\ weather' = None
                    /\ loading' = FALSE
          /\ \A r \in ForecastResponses :
                (ForecastFails(r) /\ ForecastSettles(i, r)) =>
                    /\ error' = "Error fetching weather data. Please try again."
                    /\ weather' = None
                    /\ loading' = FALSE ]_vars

\* One lookup failed in its geocoding step and another in its forecast step;
\* the state shows the generic message and no snapshot.
C4_Witness ==
    /\ \E i \in 1..Len(lookups) :
          lookups[i].outcome = "fetchFailure" /\ Len(lookups[i].requests) = 1
    /\ \E i \in 1..Len(lookups) :
          lookups[i].outcome = "fetchFailure" /\ Len(lookups[i].requests) = 2
    /\ error = "Error fetching weather data. Please try again."
    /\ weather = None
    /\ ~loading

-----------------------------------------------------------------------------
(* C5 *)

\* C5: when a lookup completes with both steps succeeding, the snapshot is
\* present, holds the first candidate's name and country and the
\* temperature of that lookup's forecast response, and the error message is
\* empty.
C5_SuccessState ==
    [][ \A i \in Ids : Moves(i) => \A r \in ForecastResponses :
          (~ForecastFails(r) /\ ForecastSettles(i, r)) =>
            /\ weather' # None
            /\ weather'[1].city = lookups[i].place[1].name
            /\ weather'[1].country = lookups[i].place[1].country
            /\ weather'[1].temperature =
                   r.body[1].current_weather[1].temperature
            /\ error' = "" ]_vars

-----------------------------------------------------------------------------
(* C6 *)

\* Lookup i has been overtaken: a lookup started after it has already ended.
Overtaken(i) ==
    /\ i \in 1..Len(lookups)
    /\ \E j \in (i + 1)..Len(lookups) : lookups[j].pc = "done"

\* C6: nothing guards against a stale response. When the response of a
\* lookup arrives after a lookup started later has ended, its outcome is
\* written all the same: the snapshot built from it, or its error message
\* and an absent snapshot.
C6_StaleResponseOverwrites ==
    [][ \A i \in Ids :
          (Overtaken(i) /\ Moves(i)) =>
            /\ \A r \in ForecastResponses :
                  (~ForecastFails(r) /\ ForecastSettles(i, r)) =>
                      /\ weather' # None
                      /\ weather'[1].city = lookups[i].place[1].name
                      /\ weather'[1].temperature =
                             r.body[1].current_weather[1].temperature
            /\ \A r \in ForecastResponses :
                  (ForecastFails(r) /\ ForecastSettles(i, r)) =>
                      /\ weather' = None
                      /\ error' =
                           "Error fetching weather data. Please try again."
            /\ \A r \in SearchResponses :
                  (EmptyResultList(r) /\ SearchSettles(i, r)) =>
                      weather' = None /\ error' = "City not found!" ]_vars

\* The second lookup started while the first was in flight and found Pune;
\* both have ended and the stored snapshot is the first lookup's Paris, which
\* therefore arrived last.
C6_Witness ==
    /\ Len(lookups) = 2
    /\ lookups[1].outcome = "success"
    /\ lookups[1].place = Some(Paris)
    /\ lookups[2].outcome = "success"
    /\ lookups[2].place = Some(Pune)
    /\ weather # None
    /\ weather[1].city = "Paris"

-----------------------------------------------------------------------------
(* C7 *)

\* C7: whenever some lookup has started and has not yet ended, the loading
\* flag is true.
C7_LoadingWhileInFlight ==
    (\E i \in 1..Len(lookups) : InFlight(i)) => loading

-----------------------------------------------------------------------------
(* C8 *)

\* C8: a step that selects a unit (a click on a unit button, or any step
\* that changes the unit preference) changes nothing else: the snapshot, the
\* error message, the loading flag, the city text and the lookups with the
\* requests they have issued stay as they are.
C8_UnitToggleFrame ==
    [][ (isCelsius' # isCelsius \/ \E value \in BOOLEAN : ClickUnit(value)) =>
            UNCHANGED <<city, weather, error, loading, lookups>> ]_vars

\* Fahrenheit was selected over a stored snapshot while a lookup is in
\* flight.
C8_Witness ==
    /\ ~isCelsius
    /\ weather # None
    /\ loading
    /\ \E i \in 1..Len(lookups) : InFlight(i)

-----------------------------------------------------------------------------
(* C9 *)

\* The table of the specification.
ClosedTable ==
    0 :> "Clear sky" @@ 1 :> "Mainly clear" @@ 2 :> "Partly cloudy"
    @@ 3 :> "Overcast" @@ 45 :> "Fog" @@ 48 :> "Depositing rime fog"
    @@ 51 :> "Light drizzle" @@ 53 :> "Moderate drizzle"
    @@ 55 :> "Dense drizzle" @@ 61 :> "Slight rain" @@ 63 :> "Moderate rain"
    @@ 65 :> "Heavy rain" @@ 71 :> "Slight snow fall"
    @@ 73 :> "Moderate snow fall" @@ 75 :> "Heavy snow fall"
    @@ 80 :> "Slight rain showers" @@ 81 :> "Moderate rain showers"
    @@ 82 :> "Violent rain showers" @@ 95 :> "Thunderstorm"
    @@ 96 :> "Thunderstorm with hail" @@ 99 :> "Thunderstorm with heavy hail"

\* C9: the label rendered for a stored condition code is the label the
\* table maps the code to, and "Unknown" for a code outside the table.
C9_ConditionLabel ==
    weather # None =>
        /\ view.panel # None
        /\ view.panel[1].condition =
             IF weather[1].weatherCode \in DOMAIN ClosedTable
             THEN ClosedTable[weather[1].weatherCode]
             ELSE "Unknown"

\* Code 48 is stored and rendered, here after Fahrenheit was selected.
C9_Witness ==
    /\ weather # None
    /\ ~isCelsius
    /\ weather[1].weatherCode = 48
    /\ view.panel[1].condition = "Depositing rime fog"

-----------------------------------------------------------------------------
(* C10 *)

\* d is the whole number nearest to num/den (den > 0).
Nearest(d, num, den) ==
    /\ 2 * (d * den - num) <= den
    /\ 2 * (num - d * den) <= den

\* C10: for a stored temperature of t whole degrees (10 * t tenths), the
\* temperature rendered is t when Celsius is selected and the whole number
\* nearest to t * 9/5 + 32 when Fahrenheit is selected.
C10_DisplayedTemperature ==
    (weather # None /\ weather[1].temperature % 10 = 0) =>
        LET t == weather[1].temperature \div 10
            shown == view.panel[1].temperature
        IN  IF isCelsius
            THEN shown = t
            ELSE Nearest(shown, 9 * t + 160, 5)

\* 21 degrees are stored and Fahrenheit is selected: 69.8 renders as 70.
C10_Witness ==
    /\ weather # None
    /\ weather[1].temperature = 210
    /\ ~isCelsius
    /\ view.panel[1].temperature = 70

-----------------------------------------------------------------------------
(* C11 *)

\* The entry of an hourly array at hour h, 0 when the array ends before h
\* or holds null there.
EntryOrZero(arr, h) ==
    IF h < Len(arr) /\ arr[h + 1] # None THEN arr[h + 1][1] ELSE 0

\* C11: when the forecast response of a lookup is complete and arrives at
\* local hour h, the snapshot is created and no error is produced; humidity
\* and precipitation are the entries of the two hourly arrays at index h, and
\* 0 where the index is out of range or the entry is null.
C11_MissingHourlyIsZero ==
    [][ \A i \in Ids : Moves(i) =>
          \A r \in ForecastResponses : \A h \in Hours :
            (~ForecastFails(r) /\ ForecastSettlesAt(i, r, h)) =>
              /\ weather' # None
              /\ weather'[1].humidity =
                   EntryOrZero(r.body[1].hourly[1].relative_humidity_2m[1], h)
              /\ weather'[1].precipitation =
                   EntryOrZero(
                     r.body[1].hourly[1].precipitation_probability[1], h)
              /\ error' = error
              /\ lookups'[i].outcome = "success" ]_vars

\* A lookup succeeded at hour 1 on the sparse hourly object: the humidity
\* array is empty there (0 stored) and the precipitation entry is 20.
C11_Witness ==
    /\ \E i \in 1..Len(lookups) : lookups[i].outcome = "success"
    /\ weather # None
    /\ weather[1].weatherCode = Unlisted.weathercode
    /\ weather[1].humidity = 0
    /\ weather[1].precipitation = 20
    /\ error = ""

-----------------------------------------------------------------------------
(* C12 *)

\* C12: a present snapshot and a non-empty error message never coexist:
\* whenever the error message is non-empty the snapshot is absent, and
\* whenever the snapshot is present and no lookup is in flight the error
\* message is empty.
C12_FourStates ==
    /\ error # "" => weather = None
    /\ (weather # None /\ \A i \in 1..Len(lookups) : ~InFlight(i)) =>
          error = ""

-----------------------------------------------------------------------------
(* C13 *)

\* The geocoding response holds a result list whose first candidate can be
\* destructured.
HasFirstCandidate(r) ==
    /\ r.settled = "json"
    /\ r.body # None
    /\ r.body[1].results # None
    /\ r.body[1].results[1] # <<>>
    /\ Head(r.body[1].results[1]) # None

\* The requests of every lookup: one search request, then at most one
\* forecast request, which only a lookup past its geocoding step has issued.
RequestsInOrder ==
    \A i \in 1..Len(lookups) :
        LET q == lookups[i].requests
        IN  /\ Len(q) \in {1, 2}
            /\ q[1].api = "search"
            /\ Len(q) = 2 => q[2].api = "forecast"
            /\ lookups[i].pc = "geo" => Len(q) = 1
            /\ lookups[i].pc = "forecast" => Len(q) = 2

\* C13: a lookup issues one search request when it starts; it issues its
\* forecast request when, and only when, the search response arrives with a
\* first candidate, for that candidate's latitude and longitude; it issues
\* nothing when the forecast response arrives; once it has ended it issues
\* nothing more; and only a submit starts a lookup.
C13_SequentialNoRetry ==
    /\ []RequestsInOrder
    /\ [][ /\ \A i \in Ids : Moves(i) =>
                /\ lookups[i].pc # "done"
                /\ \A r \in SearchResponses :
                      SearchSettles(i, r) =>
                        lookups'[i].requests =
                          IF HasFirstCandidate(r)
                          THEN Append(lookups[i].requests,
                                 [ api |-> "forecast",
                                   args |->
                                     << Head(r.body[1].results[1])[1].latitude,
                                        Head(r.body[1].results[1])[1].longitude
                                     >> ])
                          ELSE lookups[i].requests
                /\ \A r \in ForecastResponses :
                      ForecastSettles(i, r) =>
                        /\ lookups'[i].requests = lookups[i].requests
                        /\ lookups'[i].pc = "done"
           /\ Len(lookups') # Len(lookups) =>
                /\ Submit
                /\ Len(lookups') = Len(lookups) + 1
                /\ Len(lookups'[Len(lookups')].requests) = 1 ]_vars

\* A lookup whose search response listed Pune before Paris asked for the
\* forecast of Pune, failed there, and has issued nothing since.
C13_Witness ==
    \E i \in 1..Len(lookups) :
        /\ lookups[i].outcome = "fetchFailure"
        /\ lookups[i].place = Some(Pune)
        /\ Len(lookups[i].requests) = 2
        /\ lookups[i].requests[2].args = <<Pune.latitude, Pune.longitude>>

-----------------------------------------------------------------------------
(* C14 *)

\* C14: while the loading flag is true the button cannot be clicked, but
\* the Enter key with non-blank text starts one more lookup (as long as the
\* model lets lookups start at all).
C14_EnterStartsWhileLoading ==
    /\ loading => ~ENABLED ClickGetWeather
    /\ (loading /\ ~BlankText(city) /\ Len(lookups) < MaxLookups) =>
          ENABLED (KeyPress("Enter") /\ Len(lookups') = Len(lookups) + 1)

\* Two lookups are in flight at the same time.
C14_Witness ==
    /\ Len(lookups) >= 2
    /\ InFlight(1)
    /\ InFlight(2)
    /\ loading

-----------------------------------------------------------------------------
(* C15 *)

\* C15: whenever no lookup is in flight, the loading flag is false.
C15_IdleNotLoading ==
    (\A i \in 1..Len(lookups) : ~InFlight(i)) => ~loading

\* Two lookups overlapped (the first stored its snapshot after the second
\* had ended on an empty result list), a blank text was submitted and
\* Fahrenheit selected; nothing is in flight and the flag is false.
C15_Witness ==
    /\ Len(lookups) = 2
    /\ lookups[1].outcome = "success"
    /\ lookups[2].outcome = "notFound"
    /\ weather # None
    /\ error = "Please enter a city name"
    /\ ~isCelsius
    /\ ~loading

-----------------------------------------------------------------------------
(* C16 *)

\* Every request issued is answered: the response of a lookup that awaits
\* one settles eventually, in some way.
Answered(i) ==
    /\ WF_vars(\E r \in SearchResponses : SearchSettles(i, r))
    /\ WF_vars(\E r \in ForecastResponses : ForecastSettles(i, r))

SpecAnswered == Spec /\ \A i \in Ids : Answered(i)

Started(i) == i <= Len(lookups)
Ended(i) == i <= Len(lookups) /\ lookups[i].pc = "done"

\* C16: every lookup that is started ends; a lookup that has ended has
\* exactly one of the three outcomes; and once every started lookup has
\* ended the loading flag is false.
C16_EveryLookupEnds ==
    /\ \A i \in Ids : Started(i) ~> Ended(i)
    /\ [](\A i \in Ids :
            Ended(i) <=>
              (Started(i) /\
               lookups[i].outcome \in {"success", "notFound", "fetchFailure"}))
    /\ []((\A i \in Ids : Started(i) => Ended(i)) => ~loading)

\* Both lookups have ended in failure, one on a fetch failure and one on an
\* empty result list, and nothing is loading.
C16_Witness ==
    /\ Len(lookups) = 2
    /\ lookups[1].outcome = "fetchFailure"
    /\ lookups[2].outcome = "notFound"
    /\ error = "City not found!"
    /\ ~loading

-----------------------------------------------------------------------------
(* C17 *)

-----------------------------------------------------------------------------
(* C18 *)

\* The codes of the rendered range that have a label of their own.
LabelledCodes == {c \in RenderedCodes : getWeatherCode(c) # "Unknown"}

\* C18 as stated: the table a rendered condition label is resolved from has
\* 23 entries.
C18_TableHas23Entries ==
    view.panel # None => Len(weatherCodes) = 23

\* C18, amended: the table of the resolver has 21 entries, with 21 distinct
\* codes, and these are the only codes rendered with a label of their own.
C18_TableHas21Entries ==
    /\ Len(weatherCodes) = 21
    /\ Cardinality({weatherCodes[k][1] : k \in 1..Len(weatherCodes)}) = 21
    /\ Cardinality(LabelledCodes) = 21
    /\ weather # None =>
         (view.panel[1].condition # "Unknown" <=>
            \E k \in 1..Len(weatherCodes) :
                weatherCodes[k][1] = weather[1].weatherCode)

\* The last entry of the table, code 99, is stored and rendered.
C18_Witness ==
    /\ weather # None
    /\ weather[1].weatherCode = weatherCodes[Len(weatherCodes)][1]
    /\ view.panel[1].condition = "Thunderstorm with heavy hail"
    /\ ~isCelsius

=============================================================================
